---- MODULE Spec2Model ----
(***************************************************************************)
(* The epoch loop of train_val_pipeline (main_superpixels_gcn.py) with the *)
(* plateau scheduler it constructs, the checkpoint directory written and   *)
(* pruned by save_checkpoint, and the SummaryWriter it feeds.              *)
(*                                                                         *)
(* Learning rates are exact scaled integers: one unit is 1e-8 / LrScale,   *)
(* so that 0.001 * 0.5^k is an integer for every k the loop can reach.     *)
(* Wall-clock readings are whole seconds.  The float handed to the writer  *)
(* with a loss/accuracy tag is not kept (nothing reads the writer back);   *)
(* the value written under 'learning_rate' is.                             *)
(***************************************************************************)
EXTENDS Integers, Sequences, FiniteSets, TLC

\* ---------------------------------------------------------------- bounds
MaxEpochs == 4          \* largest params['epochs'] of the general runs
MaxPatience == 1        \* largest params['lr_schedule_patience'] of the general runs
TwinEpochs == 3         \* largest params['epochs'] of the pairs of runs

\* ------------------------------------------------- constants of the code
LrScale == 2^8                    \* units per 1e-8
init_lr == 100000 * LrScale       \* "init_lr": 0.001
low_init_lr == 2000 * LrScale     \* an init_lr of 2e-5, two halvings above the floor
min_lr == 1000 * LrScale          \* "min_lr": 1e-5
eps == LrScale                    \* ReduceLROnPlateau eps = 1e-8
factor_num == 1                   \* "lr_reduce_factor": 0.5 = factor_num / factor_den
factor_den == 2
patience_main == 5                \* "lr_schedule_patience": 5
epochs_main == 1000               \* "epochs": 1000
max_time_main == 48               \* "max_time": 48
threshold_den == 10000            \* ReduceLROnPlateau threshold = 1e-4 (mode 'rel')
inf == 10^9                       \* float('inf'), the scheduler's initial best

\* ------------------------------------------------------ inputs of a run
ValLosses == {10000, 19999, 20000}   \* epoch_val_loss returned by evaluate_network
TestResults == {1, 2}                \* (epoch_test_loss, epoch_test_acc) pairs
Durations == {1, 1800}               \* seconds one train_epoch pass may take
MaxTimes == {0, 1}                   \* params['max_time'] (hours) of the general runs
InitLrs == {init_lr, low_init_lr}
MetricTags == {"train/_loss", "val/_loss", "train/_acc", "val/_acc"}

VARIABLES
    params,          \* [epochs, patience, max_time, init_lr]
    signal,          \* "any" | "plateau": what the validation set yields
    pc,              \* position in train_val_pipeline
    epoch,           \* loop variable of `for epoch in range(params['epochs'])`
    lr,              \* optimizer.param_groups[0]['lr']
    best,            \* scheduler.best
    num_bad_epochs,  \* scheduler.num_bad_epochs
    last_epoch,      \* scheduler.last_epoch (number of scheduler.step calls)
    streak,          \* history: consecutive non-improving observations
    epoch_val_loss,  \* local of the loop
    epoch_test,      \* locals epoch_test_loss, epoch_test_acc
    ckpts,           \* epochs e with epoch_e.pkl in root_ckpt_dir
    globbed,         \* files of glob.glob() still to be visited by the prune loop
    writer,          \* records appended to the SummaryWriter
    writer_closed,
    t0, now,         \* time.time() at line 92, and the current reading
    per_epoch_time,  \* len(per_epoch_time)
    n_train, n_eval, \* history: calls of train_epoch / evaluate_network
    stop,            \* which exit of the loop was taken
    raised,          \* the call whose exception ended the run
    twin             \* the tape of a first run, for a second run on the same results

vars == <<params, signal, pc, epoch, lr, best, num_bad_epochs, last_epoch, streak,
          epoch_val_loss, epoch_test, ckpts, globbed, writer, writer_closed,
          t0, now, per_epoch_time, n_train, n_eval, stop, raised, twin>>

sched == <<lr, best, num_bad_epochs, last_epoch, streak>>
locals == <<epoch_val_loss, epoch_test>>
disk == <<ckpts, globbed>>
sink == <<writer, writer_closed>>
clock == <<t0, now, per_epoch_time>>
calls == <<n_train, n_eval>>

\* ------------------------------------------------------- pure functions

\* ReduceLROnPlateau.is_better, mode='min', threshold_mode='rel':
\* a < best * (1 - threshold)
is_better_strict(a, b) == a < b
is_better(a, b) ==
    IF b = inf THEN TRUE ELSE a * threshold_den < b * (threshold_den - 1)

Max(a, b) == IF a >= b THEN a ELSE b

\* ReduceLROnPlateau._reduce_lr: new_lr = max(old_lr * factor, min_lrs[i]) with the
\* scheduler's own min_lr left at its default 0; applied only if old - new > eps
reduce_lr_wrong(old) == old * factor_den
reduce_lr(old) ==
    LET new == Max((old * factor_num) \div factor_den, 0)
    IN  IF old - new > eps THEN new ELSE old

\* the metric handed to scheduler.step: the validation loss of the epoch
scheduler_metric_test(val_loss, test_loss) == test_loss
scheduler_metric(val_loss, test_loss) == val_loss

\* the test `num_bad_epochs > patience` of ReduceLROnPlateau.step
plateau_ge(bad, patience) == bad >= patience
plateau(bad, patience) == bad > patience

\* int(file.split('_')[-1].split('.')[0]) < epoch - 1
stale_keep_one(e, current) == e < current
stale_keep_three(e, current) == e < current - 2
stale(e, current) == e < current - 1

\* time.time() - t0 > params['max_time'] * 3600
timed_out_hours(elapsed, max_time) == elapsed \div 3600 > max_time
timed_out_ge(elapsed, max_time) == elapsed >= max_time * 3600
timed_out(elapsed, max_time) == elapsed > max_time * 3600

\* optimizer.param_groups[0]['lr'] < params['min_lr']
below_floor_le(rate) == rate <= min_lr
below_floor(rate) == rate < min_lr

\* the learning rate of the optimizer train_epoch hands back: the train step updates
\* model parameters and optimizer moments, the rate is the scheduler's to change
train_epoch_lr(rate) == rate

\* range(params['epochs']) still yields `e`
in_range_le(e, n) == e <= n
in_range(e, n) == e < n

\* the writer.add_scalar calls of one epoch, in program order
epoch_records_noepoch(e, rate) ==
    << <<"train/_loss", 0>>, <<"val/_loss", 0>>, <<"train/_acc", 0>>,
       <<"val/_acc", 0>>, <<"learning_rate", 0, rate>> >>
epoch_records(e, rate) ==
    << <<"train/_loss", e>>, <<"val/_loss", e>>, <<"train/_acc", e>>,
       <<"val/_acc", e>>, <<"learning_rate", e, rate>> >>

\* ------------------------------------------------------- a pair of runs
\* To compare two runs that differ in their test results only, a first run is taped
\* (phase 1): the seconds of each train_epoch pass, the validation losses, the test
\* results, and at its end what it did.  The program is then run again (phase 2) and
\* receives the taped durations, validation losses and exceptions, with test results
\* of its own.  In phase 0 nothing is taped.

TwinOff == [phase |-> 0, durs |-> <<>>, vals |-> <<>>, tests |-> <<>>, obs |-> <<>>]

\* what a run did: the rates logged, the files left, the calls made, the exit taken
Observation ==
    [lrs |-> SelectSeq(writer, LAMBDA r : r[1] = "learning_rate"),
     lr |-> lr, ckpts |-> ckpts, saves |-> last_epoch, epoch |-> epoch,
     epochs |-> per_epoch_time, n_train |-> n_train, n_eval |-> n_eval,
     elapsed |-> now - t0, stop |-> stop, raised |-> raised, pc |-> pc]

\* in the second run the i-th input x of a kind is the one taped
Replayed(tape, i, x) == (twin.phase = 2 /\ i <= Len(tape)) => x = tape[i]

\* the first run ended with an exception of `call` at this point of the program
RaisedHere(call) ==
    /\ twin.obs.raised = call
    /\ CASE call = "train_epoch" -> twin.obs.n_train = n_train + 1
         [] call = "evaluate_network" -> twin.obs.n_eval = n_eval + 1
         [] OTHER -> twin.obs.epoch = epoch

\* the second run gets an exception where the first did, and only there
Raises(call) == twin.phase = 2 => RaisedHere(call)
Returns(call) == twin.phase = 2 => ~RaisedHere(call)

\* --------------------------------------------------------------- initial

InitCommon ==
    /\ pc = "loop"
    /\ epoch = 0
    /\ lr = params.init_lr
    /\ best = inf
    /\ num_bad_epochs = 0
    /\ last_epoch = 0
    /\ streak = 0
    /\ epoch_val_loss = 0
    /\ epoch_test = 0
    /\ ckpts = {}
    /\ globbed = {}
    /\ writer = <<>>
    /\ writer_closed = FALSE
    /\ t0 = 0
    /\ now = 0
    /\ per_epoch_time = 0
    /\ n_train = 0
    /\ n_eval = 0
    /\ stop = "none"
    /\ raised = "none"

Init ==
    /\ params \in [epochs : 0..MaxEpochs, patience : 0..MaxPatience,
                   max_time : MaxTimes, init_lr : InitLrs]
    /\ signal = "any"
    /\ twin = TwinOff
    /\ InitCommon

\* the parameters of main(), and variations of them that end the loop otherwise,
\* under a validation loss that never improves on the first one
InitFloor ==
    /\ params \in [epochs : {epochs_main}, patience : {patience_main},
                   max_time : {max_time_main}, init_lr : {init_lr}]
              \cup [epochs : {epochs_main}, patience : {0},
                    max_time : {max_time_main}, init_lr : {init_lr}]
              \cup [epochs : {3}, patience : {0}, max_time : {0, 1}, init_lr : {init_lr}]
    /\ signal = "plateau"
    /\ twin = TwinOff
    /\ InitCommon

\* a first run to be taped, with parameters under which every exit of the loop is
\* taken within TwinEpochs epochs
InitTwin ==
    /\ params \in [epochs : 0..TwinEpochs, patience : {0}, max_time : {1},
                   init_lr : {low_init_lr}]
    /\ signal = "any"
    /\ twin = [TwinOff EXCEPT !.phase = 1]
    /\ InitCommon

\* --------------------------------------------------------------- actions

\* an exception nothing catches ends train_val_pipeline
Abort_retry(call) ==
    /\ pc' = "train"
    /\ raised' = call
Abort_finally(call) ==
    /\ pc' = "close"
    /\ raised' = call
Abort(call) ==
    /\ pc' = "aborted"
    /\ raised' = call

\* line 94: the for statement takes the next index of range(params['epochs'])
LoopEnter ==
    /\ pc = "loop"
    /\ in_range(epoch, params.epochs)
    /\ pc' = "train"
    /\ UNCHANGED <<params, twin, signal, epoch, sched, locals, disk, sink, clock, calls,
                   stop, raised>>

\* line 94: range exhausted, the loop ends without a break
LoopExhaust ==
    /\ pc = "loop"
    /\ ~in_range(epoch, params.epochs)
    /\ pc' = "final_test"
    /\ stop' = "max_epochs"
    /\ UNCHANGED <<params, twin, signal, epoch, sched, locals, disk, sink, clock, calls,
                   raised>>

\* line 99: train_epoch returns the losses and the optimizer; the pass over the
\* training set takes d >= 1 seconds
TrainEpoch ==
    /\ pc = "train"
    /\ Returns("train_epoch")
    /\ \E d \in Durations :
          /\ Replayed(twin.durs, epoch + 1, d)
          /\ now' = now + d
          /\ twin' = IF twin.phase = 1 THEN [twin EXCEPT !.durs = Append(@, d)]
                     ELSE twin
    /\ lr' = train_epoch_lr(lr)
    /\ n_train' = n_train + 1
    /\ pc' = "val"
    /\ UNCHANGED <<params, signal, epoch, best, num_bad_epochs, last_epoch, streak,
                   locals, disk, sink, t0, per_epoch_time, n_eval, stop, raised>>

\* line 99: train_epoch raises
TrainRaise ==
    /\ pc = "train"
    /\ Raises("train_epoch")
    /\ Abort("train_epoch")
    /\ n_train' = n_train + 1
    /\ UNCHANGED <<params, twin, signal, epoch, sched, locals, disk, sink, clock, n_eval,
                   stop>>

\* line 100: evaluate_network on the validation set
EvalVal ==
    /\ pc = "val"
    /\ Returns("evaluate_network")
    /\ \E v \in ValLosses :
          /\ signal = "plateau" => ~is_better(v, best) \/ best = inf
          /\ Replayed(twin.vals, epoch + 1, v)
          /\ epoch_val_loss' = v
          /\ twin' = IF twin.phase = 1 THEN [twin EXCEPT !.vals = Append(@, v)]
                     ELSE twin
    /\ n_eval' = n_eval + 1
    /\ pc' = "test"
    /\ UNCHANGED <<params, signal, epoch, sched, epoch_test, disk, sink, clock,
                   n_train, stop, raised>>

\* line 101: evaluate_network on the test set
EvalTest_no_sched ==
    /\ pc = "test"
    /\ Returns("evaluate_network")
    /\ \E r \in TestResults :
          /\ epoch_test' = r
          /\ twin' = IF twin.phase = 1 THEN [twin EXCEPT !.tests = Append(@, r)]
                     ELSE twin
    /\ n_eval' = n_eval + 1
    /\ pc' = "save"
    /\ UNCHANGED <<params, signal, epoch, sched, epoch_val_loss, disk, sink, clock,
                   n_train, stop, raised>>
EvalTest ==
    /\ pc = "test"
    /\ Returns("evaluate_network")
    /\ \E r \in TestResults :
          /\ epoch_test' = r
          /\ twin' = IF twin.phase = 1 THEN [twin EXCEPT !.tests = Append(@, r)]
                     ELSE twin
    /\ n_eval' = n_eval + 1
    /\ pc' = "sched"
    /\ UNCHANGED <<params, signal, epoch, sched, epoch_val_loss, disk, sink, clock,
                   n_train, stop, raised>>

\* lines 100, 101, 132, 133: evaluate_network raises
EvalRaise ==
    /\ pc \in {"val", "test", "final_test", "final_train"}
    /\ Raises("evaluate_network")
    /\ Abort("evaluate_network")
    /\ n_eval' = n_eval + 1
    /\ UNCHANGED <<params, twin, signal, epoch, sched, locals, disk, sink, clock, n_train,
                   stop>>

\* line 103: scheduler.step(epoch_val_loss)
SchedulerStep ==
    /\ pc = "sched"
    /\ last_epoch' = last_epoch + 1
    /\ LET metrics == scheduler_metric(epoch_val_loss, epoch_test)
           better == is_better(metrics, best)
           bad == IF better THEN 0 ELSE num_bad_epochs + 1
       IN  /\ best' = IF better THEN metrics ELSE best
           /\ streak' = IF better THEN 0 ELSE streak + 1
           /\ IF plateau(bad, params.patience)
                 THEN /\ lr' = reduce_lr(lr)
                      /\ num_bad_epochs' = 0
                 ELSE /\ lr' = lr
                      /\ num_bad_epochs' = bad
    /\ pc' = "save"
    /\ UNCHANGED <<params, twin, signal, epoch, locals, disk, sink, clock, calls, stop,
                   raised>>

\* lines 47-48: torch.save writes epoch_<epoch>.pkl, glob.glob lists the directory
SaveWrite ==
    /\ pc = "save"
    /\ ckpts' = ckpts \cup {epoch}
    /\ globbed' = ckpts \cup {epoch}
    /\ pc' = "prune"
    /\ UNCHANGED <<params, twin, signal, epoch, sched, locals, sink, clock, calls, stop,
                   raised>>

\* lines 48-49: the prune loop visits a file that is kept
PruneKeep ==
    /\ pc = "prune"
    /\ \E f \in globbed :
          /\ ~stale(f, epoch)
          /\ globbed' = globbed \ {f}
    /\ UNCHANGED <<params, twin, signal, pc, epoch, sched, locals, ckpts, sink, clock,
                   calls, stop, raised>>

\* lines 49-50: the prune loop removes a stale file
PruneRemove ==
    /\ pc = "prune"
    /\ Returns("os.remove")
    /\ \E f \in globbed :
          /\ stale(f, epoch)
          /\ ckpts' = ckpts \ {f}
          /\ globbed' = globbed \ {f}
    /\ UNCHANGED <<params, twin, signal, pc, epoch, sched, locals, sink, clock, calls,
                   stop, raised>>

\* line 50: os.remove raises (the file is already gone, or may not be deleted);
\* nothing catches it
PruneRemoveFail ==
    /\ pc = "prune"
    /\ \E f \in globbed :
          /\ stale(f, epoch)
          /\ \E gone \in BOOLEAN :
                /\ twin.phase = 2 => gone = (f \notin twin.obs.ckpts)
                /\ ckpts' = IF gone THEN ckpts \ {f} ELSE ckpts
    /\ Raises("os.remove")
    /\ Abort("os.remove")
    /\ UNCHANGED <<params, twin, signal, epoch, sched, locals, globbed, sink, clock,
                   calls, stop>>

\* line 53: the prune loop is over, save_checkpoint returns
SaveReturn ==
    /\ pc = "prune"
    /\ globbed = {}
    /\ pc' = "record"
    /\ UNCHANGED <<params, twin, signal, epoch, sched, locals, disk, sink, clock, calls,
                   stop, raised>>

\* lines 106-117: the add_scalar calls of the epoch, per_epoch_time.append
WriterRecord ==
    /\ pc = "record"
    /\ writer' = writer \o epoch_records(epoch, lr)
    /\ per_epoch_time' = per_epoch_time + 1
    /\ pc' = "stop_check"
    /\ UNCHANGED <<params, twin, signal, epoch, sched, locals, disk, writer_closed, t0,
                   now, calls, stop, raised>>

\* lines 123-125: learning rate below the floor, break
BreakMinLr ==
    /\ pc = "stop_check"
    /\ below_floor(lr)
    /\ stop' = "converged"
    /\ pc' = "final_test"
    /\ UNCHANGED <<params, twin, signal, epoch, sched, locals, disk, sink, clock, calls,
                   raised>>

\* lines 126-128: time budget exceeded, break
BreakMaxTime_first ==
    /\ pc = "stop_check"
    /\ timed_out(now - t0, params.max_time)
    /\ stop' = "timeout"
    /\ pc' = "final_test"
    /\ UNCHANGED <<params, twin, signal, epoch, sched, locals, disk, sink, clock, calls,
                   raised>>
BreakMaxTime ==
    /\ pc = "stop_check"
    /\ ~below_floor(lr)
    /\ timed_out(now - t0, params.max_time)
    /\ stop' = "timeout"
    /\ pc' = "final_test"
    /\ UNCHANGED <<params, twin, signal, epoch, sched, locals, disk, sink, clock, calls,
                   raised>>

\* line 130: neither break, the loop goes on to the next index
NextEpoch ==
    /\ pc = "stop_check"
    /\ ~below_floor(lr)
    /\ ~timed_out(now - t0, params.max_time)
    /\ epoch' = epoch + 1
    /\ pc' = "loop"
    /\ UNCHANGED <<params, twin, signal, sched, locals, disk, sink, clock, calls, stop,
                   raised>>

\* line 132: the final evaluate_network on the test set
FinalEvalTest ==
    /\ pc = "final_test"
    /\ Returns("evaluate_network")
    /\ n_eval' = n_eval + 1
    /\ pc' = "final_train"
    /\ UNCHANGED <<params, twin, signal, epoch, sched, locals, disk, sink, clock, n_train,
                   stop, raised>>

\* line 133: the final evaluate_network on the train set
FinalEvalTrain ==
    /\ pc = "final_train"
    /\ Returns("evaluate_network")
    /\ n_eval' = n_eval + 1
    /\ pc' = "close"
    /\ UNCHANGED <<params, twin, signal, epoch, sched, locals, disk, sink, clock, n_train,
                   stop, raised>>

\* line 139: writer.close()
WriterClose ==
    /\ pc = "close"
    /\ writer_closed' = TRUE
    /\ pc' = "done"
    /\ UNCHANGED <<params, twin, signal, epoch, sched, locals, disk, writer, clock, calls,
                   stop, raised>>

Next ==
    \/ LoopEnter
    \/ LoopExhaust
    \/ TrainEpoch
    \/ TrainRaise
    \/ EvalVal
    \/ EvalTest
    \/ EvalRaise
    \/ SchedulerStep
    \/ SaveWrite
    \/ PruneKeep
    \/ PruneRemove
    \/ PruneRemoveFail
    \/ SaveReturn
    \/ WriterRecord
    \/ BreakMinLr
    \/ BreakMaxTime
    \/ NextEpoch
    \/ FinalEvalTest
    \/ FinalEvalTrain
    \/ WriterClose

Spec == Init /\ [][Next]_vars

\* lines 56-93 again: the first run of a pair is over; what it did goes on the tape
\* and train_val_pipeline starts anew with the same parameters
TwinReset ==
    /\ twin.phase = 1
    /\ pc \in {"done", "aborted"}
    /\ twin' = [twin EXCEPT !.phase = 2, !.obs = Observation]
    /\ pc' = "loop"
    /\ epoch' = 0
    /\ lr' = params.init_lr
    /\ best' = inf
    /\ num_bad_epochs' = 0
    /\ last_epoch' = 0
    /\ streak' = 0
    /\ epoch_val_loss' = 0
    /\ epoch_test' = 0
    /\ ckpts' = {}
    /\ globbed' = {}
    /\ writer' = <<>>
    /\ writer_closed' = FALSE
    /\ t0' = 0
    /\ now' = 0
    /\ per_epoch_time' = 0
    /\ n_train' = 0
    /\ n_eval' = 0
    /\ stop' = "none"
    /\ raised' = "none"
    /\ UNCHANGED <<params, signal>>

NextTwin == Next \/ TwinReset

SpecTwin == InitTwin /\ [][NextTwin]_vars

SpecFloor == InitFloor /\ [][Next]_vars

\* ---------------------------------------------------------------- claims

\* the records of the writer with a given tag, and the steps written
Records(tag) == SelectSeq(writer, LAMBDA r : r[1] = tag)
LrLog == Records("learning_rate")
StepsOf(tag) == {writer[i][2] : i \in {j \in 1..Len(writer) : writer[j][1] = tag}}
TagsAt(e) == {writer[i][1] : i \in {j \in 1..Len(writer) : writer[j][2] = e}}
CountOf(tag, e) ==
    Cardinality({i \in 1..Len(writer) : writer[i][1] = tag /\ writer[i][2] = e})
InLoopAbort == pc = "aborted" /\ stop = "none" /\ raised \in {"train_epoch", "evaluate_network"}

\* C1: when save_checkpoint has returned for epoch e of a run that began with an
\* empty directory, the files present are exactly those of e and e-1 (of 0 alone
\* after the first save).
C1_RetentionAfterSave ==
    pc = "record" => ckpts = {e \in {epoch - 1, epoch} : e >= 0}
C1_Witness ==
    pc = "record" /\ epoch >= 2 /\ ckpts = {epoch - 1, epoch}

\* C2 as stated: in every state, also between the write and the deletions of
\* save_checkpoint, at most 2 checkpoint files exist.
C2_AtMostTwoAlways ==
    Cardinality(ckpts) <= 2
\* C2 amended: at most 3 files exist in every state, all of the three latest epochs
\* begun; at most 2 exist except from the write of a new snapshot until the prune
\* loop of that save_checkpoint call has ended without a failing os.remove, and
\* once save_checkpoint has returned they are those of the two latest epochs.
C2_AtMostThreeTwoOutsideSave ==
    /\ Cardinality(ckpts) <= 3
    /\ \A f \in ckpts : epoch - 2 <= f /\ f <= epoch
    /\ (pc # "prune" /\ raised # "os.remove") => Cardinality(ckpts) <= 2
    /\ pc \in {"record", "stop_check"} => \A f \in ckpts : f >= epoch - 1
C2_Witness ==
    pc = "prune" /\ Cardinality(ckpts) = 3

\* C3: the learning rate never exceeds the initial one, and the values written under
\* 'learning_rate' for consecutive epochs never increase.
C3_LrNonIncreasing ==
    /\ lr <= params.init_lr
    /\ \A i \in 1..Len(LrLog) :
          /\ LrLog[i][3] <= params.init_lr
          /\ lr <= LrLog[i][3]
          /\ i > 1 => LrLog[i][3] <= LrLog[i - 1][3]
C3_Witness ==
    \E i \in 2..Len(LrLog) : LrLog[i][3] < LrLog[i - 1][3] /\ LrLog[i][3] < LrLog[1][3]

C5_SixScalarsRecorded ==
    pc = "stop_check" =>
        TagsAt(epoch) = MetricTags \cup {"test/_loss", "test/_acc", "learning_rate"}
\* C5 amended: for every completed epoch e the writer holds exactly one record keyed
\* by e for each of train/_loss, val/_loss, train/_acc, val/_acc and learning_rate
\* (the latter with the rate current at that time), none for the test loss or
\* accuracy, and no record for an epoch that is not completed.
C5_FourScalarsAndLrRecorded ==
    /\ Len(writer) = 5 * per_epoch_time
    /\ \A e \in 0..(per_epoch_time - 1) :
          /\ TagsAt(e) = MetricTags \cup {"learning_rate"}
          /\ \A tag \in TagsAt(e) : CountOf(tag, e) = 1
    /\ \A i \in 1..Len(writer) : writer[i][2] < per_epoch_time
    /\ pc = "stop_check" =>
          /\ per_epoch_time = epoch + 1
          /\ LrLog[Len(LrLog)] = <<"learning_rate", epoch, lr>>
C5_Witness ==
    pc = "stop_check" /\ per_epoch_time >= 2 /\ lr < params.init_lr

\* C6 as stated: a failing deletion in the prune step does not end the run.
C6_PruneFailureIgnored ==
    ~(pc = "aborted" /\ raised = "os.remove")

\* C7: an exception of train_epoch or evaluate_network in epoch e ends the run at
\* once: the step changes no scheduler state, file or record, epoch e has no
\* scheduler step, checkpoint or record, and nothing happens afterwards.
C7_StepExceptionAborts ==
    /\ [](raised # "none" => pc = "aborted")
    /\ [](InLoopAbort =>
            /\ last_epoch = epoch
            /\ epoch \notin ckpts
            /\ TagsAt(epoch) = {}
            /\ per_epoch_time = epoch
            /\ n_train <= epoch + 1)
    /\ [][(pc' = "aborted" /\ raised' # "os.remove") =>
            UNCHANGED <<sched, disk, sink, epoch, clock, stop>>]_vars
    /\ [][pc = "aborted" => UNCHANGED vars]_vars
C7_Witness ==
    InLoopAbort /\ epoch >= 2 /\ Cardinality(ckpts) = 2 /\ Len(writer) = 5 * epoch

\* C8: no run performs more than params['epochs'] epochs, and a run that leaves the
\* loop with the rate not below min_lr and the time budget not exceeded has
\* performed exactly params['epochs'] epochs, indices 0..epochs-1 with one
\* train_epoch call each, and left through the exhausted range.
C8_MaxEpochs ==
    /\ n_train <= params.epochs
    /\ per_epoch_time <= params.epochs
    /\ (stop # "none" /\ ~below_floor(lr) /\ ~timed_out(now - t0, params.max_time)) =>
          /\ stop = "max_epochs"
          /\ n_train = params.epochs
          /\ per_epoch_time = params.epochs
          /\ StepsOf("learning_rate") = 0..(params.epochs - 1)
    /\ stop = "max_epochs" => epoch = params.epochs /\ per_epoch_time = params.epochs
C8_Witness ==
    pc = "done" /\ stop = "max_epochs" /\ params.epochs = 3 /\ n_train = 3

\* C9: with max_time = 0 and epochs >= 1 no second epoch starts, and the loop is
\* left after epoch 0, its checkpoint and its records, through the time-budget
\* break.
C9_ZeroBudgetOneEpoch ==
    (params.max_time = 0 /\ params.epochs >= 1) =>
        /\ epoch = 0
        /\ n_train <= 1
        /\ stop # "none" =>
              /\ stop = "timeout"
              /\ n_train = 1
              /\ per_epoch_time = 1
              /\ ckpts = {0}
              /\ TagsAt(0) = MetricTags \cup {"learning_rate"}
C9_Witness ==
    pc = "done" /\ stop = "timeout" /\ params.max_time = 0 /\ params.epochs >= 2

\* C10 as stated: under a validation loss that never improves the loop leaves
\* through the learning-rate floor after 7 * (patience + 1) epochs, by epoch 8.
C10_FloorAfterSevenPlateaus ==
    stop = "converged" =>
        /\ per_epoch_time = 7 * (params.patience + 1)
        /\ epoch <= 8
\* C10 amended: under a validation loss that never improves on the first (finite)
\* one, the loop leaves through the learning-rate floor at the 7th reduction, in
\* the epoch of index 7 * (patience + 1), having run 7 * (patience + 1) + 1 epochs
\* (the first observation improves on the initial best of +infinity): 8 epochs for
\* patience 0, 43 for the patience 5 of main.
C10_FloorAfterSevenReductions ==
    /\ signal = "plateau" => epoch <= 7 * (params.patience + 1)
    /\ (signal = "plateau" /\ stop = "converged") =>
          /\ lr * factor_den ^ 7 = params.init_lr * factor_num ^ 7
          /\ epoch = 7 * (params.patience + 1)
          /\ per_epoch_time = 7 * (params.patience + 1) + 1
    /\ (signal = "plateau" /\ pc = "stop_check" /\ epoch < 7 * (params.patience + 1)) =>
          ~below_floor(lr)
C10_Witness ==
    pc = "done" /\ stop = "converged" /\ params.patience = patience_main /\ epoch = 42

\* the program points of one epoch, in program order, and the steps between them
Finished == pc \in {"done", "aborted"}
Budget == params.max_time * 3600
PcOrder ==
    { <<"loop", "train">>, <<"train", "val">>, <<"val", "test">>, <<"test", "sched">>,
      <<"sched", "save">>, <<"save", "prune">>, <<"prune", "record">>,
      <<"record", "stop_check">>, <<"stop_check", "loop">>,
      <<"stop_check", "final_test">>, <<"loop", "final_test">>,
      <<"final_test", "final_train">>, <<"final_train", "close">>,
      <<"close", "done">> }

\* C12 as stated: a run in which neither train_epoch nor evaluate_network raised is
\* not ended before it is finalized.
C12_NoStepRaiseRunFinalizes ==
    pc = "aborted" => raised \in {"train_epoch", "evaluate_network"}

\* C13: when at the stop check the rate is below min_lr and the elapsed time is over
\* the budget, the loop is left through the learning-rate break, and a run left
\* through the time break has a rate not below min_lr.
C13_FloorBeforeTimeout ==
    /\ [][(pc = "stop_check" /\ lr < min_lr /\ now - t0 > Budget) =>
             stop' = "converged"]_vars
    /\ [](stop = "timeout" => lr >= min_lr)
    /\ []((stop = "converged" /\ now - t0 > Budget) => lr < min_lr)
C13_Witness ==
    stop = "converged" /\ now - t0 > Budget /\ pc = "done"

C15_TimeoutAtEpochBoundary ==
    /\ [](stop = "timeout" =>
            /\ now - t0 > Budget
            /\ n_train = epoch + 1
            /\ last_epoch = epoch + 1
            /\ epoch \in ckpts
            /\ per_epoch_time = epoch + 1
            /\ TagsAt(epoch) = MetricTags \cup {"learning_rate"})
    /\ []((pc \in {"loop", "train"} /\ stop = "none") => now - t0 <= Budget)
    /\ [](pc \in {"val", "test", "sched", "save", "prune", "record", "stop_check"} =>
            stop = "none")
    /\ [][(pc = "stop_check" /\ lr >= min_lr /\ now - t0 > Budget) =>
             stop' = "timeout"]_vars
C15_Witness ==
    /\ pc = "sched"
    /\ epoch >= 1
    /\ now - t0 > Budget
    /\ stop = "none"

\* C16: every epoch runs train_epoch, the validation and the test evaluation, the
\* scheduler step, the checkpoint save, the records and the stop check in this
\* order, once each: at each program point the calls made so far are those of the
\* earlier epochs and of the earlier steps of this one, and the rate recorded and
\* tested is the one after the scheduler step of the epoch.
C16_EpochStepOrder ==
    /\ [][pc' # pc => (pc' = "aborted" \/ <<pc, pc'>> \in PcOrder)]_vars
    /\ [](pc \in {"train", "val", "test", "sched", "save", "prune", "record"} =>
            /\ n_train = IF pc = "train" THEN epoch ELSE epoch + 1
            /\ n_eval = 2 * epoch + (IF pc \in {"train", "val"} THEN 0
                                     ELSE IF pc = "test" THEN 1 ELSE 2)
            /\ last_epoch = IF pc \in {"save", "prune", "record"} THEN epoch + 1
                            ELSE epoch
            /\ (epoch \in ckpts) = (pc \in {"prune", "record"})
            /\ per_epoch_time = epoch
            /\ Len(writer) = 5 * epoch)
    /\ [](pc = "stop_check" =>
            /\ n_train = epoch + 1
            /\ n_eval = 2 * epoch + 2
            /\ last_epoch = epoch + 1
            /\ epoch \in ckpts
            /\ per_epoch_time = epoch + 1
            /\ writer[Len(writer)] = <<"learning_rate", epoch, lr>>)
C16_Witness ==
    pc = "stop_check" /\ epoch >= 2 /\ lr < params.init_lr

\* C17 as stated: every observation strictly below the best loss becomes the best
\* loss and resets num_bad_epochs.
C17_StrictDecreaseImproves ==
    [][(pc = "sched" /\ pc' = "save" /\ epoch_val_loss < best) =>
          (best' = epoch_val_loss /\ num_bad_epochs' = 0)]_vars
\* C17 amended: an observation improves only if it is below best * (1 - 1e-4), the
\* relative threshold of the scheduler: it then becomes the best loss and resets
\* num_bad_epochs.  An observation equal to the best loss, or below it by no more
\* than that margin, leaves the best loss and counts as a bad epoch (num_bad_epochs
\* goes up by one, or the rate is reduced and it returns to 0 once it exceeds the
\* patience).  The first observation always improves on the initial +infinity.
C17_ThresholdDecreaseImproves ==
    [][(pc = "sched" /\ pc' = "save") =>
          IF best = inf \/ epoch_val_loss * threshold_den < best * (threshold_den - 1)
             THEN best' = epoch_val_loss /\ num_bad_epochs' = 0 /\ lr' = lr
             ELSE /\ best' = best
                  /\ streak' = streak + 1
                  /\ IF num_bad_epochs + 1 > params.patience
                        THEN num_bad_epochs' = 0 /\ lr' < lr
                        ELSE num_bad_epochs' = num_bad_epochs + 1 /\ lr' = lr]_vars
C17_Witness ==
    /\ pc = "save"
    /\ epoch_val_loss < best
    /\ num_bad_epochs > 0

\* C18: the records of every tag carry the epoch indices 0, 1, 2, ... in the order
\* written, and the n-th group of records carries index n - 1.
C18_StepsIncreaseFromZero ==
    /\ \A i \in 1..Len(writer) : writer[i][2] = (i - 1) \div 5
    /\ \A tag \in MetricTags \cup {"learning_rate"} :
          \A k \in 1..Len(Records(tag)) : Records(tag)[k][2] = k - 1
C18_Witness ==
    Len(writer) >= 15 /\ pc = "stop_check"

\* C19: the writer is closed exactly in a finalized run, after the two final
\* evaluations, nothing is written to it afterwards, and a run ended by an exception
\* never closes it.
C19_WriterClosedOnceAtEnd ==
    /\ [](writer_closed <=> pc = "done")
    /\ [](raised # "none" => ~writer_closed)
    /\ [](pc = "done" =>
            /\ stop \in {"converged", "timeout", "max_epochs"}
            /\ n_eval = 2 * per_epoch_time + 2)
    /\ [][writer_closed => (writer' = writer /\ writer_closed')]_vars
    /\ [][writer_closed' # writer_closed => (pc = "close" /\ writer' = writer)]_vars
C19_Witness ==
    writer_closed /\ stop = "timeout" /\ Len(writer) >= 10

\* C20: with epochs = 0 there is no train step, scheduler step, checkpoint or record,
\* the loop is left through the exhausted range, and the two final evaluations and
\* the close still happen, with per_epoch_time empty.
C20_ZeroEpochs ==
    params.epochs = 0 =>
        /\ n_train = 0
        /\ last_epoch = 0
        /\ ckpts = {}
        /\ writer = <<>>
        /\ per_epoch_time = 0
        /\ stop \in {"none", "max_epochs"}
        /\ stop = "max_epochs" <=> pc # "loop"
        /\ pc = "done" => (n_eval = 2 /\ writer_closed)
        /\ pc = "aborted" => raised = "evaluate_network"
C20_Witness ==
    pc = "done" /\ params.epochs = 0 /\ n_eval = 2

\* C11: a second run that receives the durations, validation losses and exceptions
\* of a first run, and test results of its own, logs the same learning rates as far
\* as it has come, and ends having done what the first run did: the same rates,
\* checkpoint files and saves, epochs, calls, elapsed time and exit.
C11_TestResultsDoNotSteer ==
    twin.phase = 2 =>
        /\ Len(LrLog) <= Len(twin.obs.lrs)
        /\ \A i \in 1..Len(LrLog) : LrLog[i] = twin.obs.lrs[i]
        /\ per_epoch_time <= twin.obs.epochs
        /\ last_epoch <= twin.obs.saves
        /\ stop \in {"none", twin.obs.stop}
        /\ pc \in {"done", "aborted"} => Observation = twin.obs
C11_Witness ==
    /\ twin.phase = 2
    /\ pc = "done"
    /\ stop = "converged"
    /\ \A i \in 1..Len(twin.tests) : twin.tests[i] = 1
    /\ epoch_test = 2

====
